---- MODULE Spec2Model ----
(***************************************************************************)
(* A model of tidevice/_safe_socket.py: the id allocator get_uniq_id, the  *)
(* socket owner SafeStreamSocket, the framed channel PlistSocket and the   *)
(* wrapper PlistSocketProperty.                                            *)
(*                                                                         *)
(* The specifications of the module:                                       *)
(*   SpecAlloc   threads calling get_uniq_id concurrently;                 *)
(*   SpecLife    construction, switch_to_ssl, close and finalization of    *)
(*               connections and of the wrappers that hold them;           *)
(*   SpecConn    one connection: its construction, upgrades, release and   *)
(*               the socket objects its recv, recvall and sendall use;     *)
(*   SpecSend    sendall and the timeout of the socket it writes to;       *)
(*   SpecClient  one channel "A" talking to a server: send_packet and      *)
(*               recv_packet over an inbound byte stream;                  *)
(*   SpecRead    recvall called directly on the bytes a server delivers;   *)
(*   SpecPair    channel "A" sending to channel "B", which receives;       *)
(*   SpecChan    channel "A" driven through its connection, which is       *)
(*               upgraded and released between the channel's calls.        *)
(***************************************************************************)
EXTENDS Integers, Sequences, FiniteSets, TLC

(* ------------------------------ bounds -------------------------------- *)
NumThreads == 3
MaxCalls == 4
NumConns == 2
MaxConstructs == 2
MaxOps == 3
MaxSrvFrames == 1
MaxReadN == 2

(* ------------------------- program constants -------------------------- *)
FirstHeaderSize == 16
LenHeaderSize == 4
ProtoVersion == 1
MessageTypePlist == 8
DefaultTag == 0

\* A socket's timeout when it has none (None), and the one sendall applies.
NoTimeout == 0
SendTimeout == 10

NoThread == 0
NoHandle == 0

VARIABLES
    (* get_uniq_id *)
    n,              \* _n[0]
    nlock,          \* _nlock: the thread holding it, or NoThread
    tpc,            \* per thread: its position in get_uniq_id
    ttmp,           \* per thread: the value loaded by _n[0] += 1
    tseen,          \* per thread: the values returned before its call started
    returned,       \* every value returned so far, in order of return
    after,          \* per returned value: the values returned before that call started
    (* SafeStreamSocket / PlistSocketProperty lifecycle *)
    hstate,         \* per socket object: "unused", "open", "detached", "closed"
    hkind,          \* per socket object: "plain", "dup", "ssl"
    closeCalls,     \* per socket object: how many times close() was invoked on it
    cstate,         \* per connection object: "none", "live", "gone"
    cid,            \* per connection: self._id
    sock,           \* per connection: self._sock
    sock_gclist,    \* per connection: self._sock_gclist
    finalizer,      \* per connection: self._finalizer.alive
    pstate,         \* per wrapper object: "none", "live", "gone"
    pfinalizer,     \* per wrapper: self._finalizer.alive
    used,           \* per socket object: recv or sendall was performed on it
    lateIO,         \* per connection: the I/O performed while it reported closed
    lastUp,         \* per connection: its last switch_to_ssl call and outcome
    lastCons,       \* the last constructor call and its outcome
    (* PlistSocket framing *)
    littleEndian,   \* the native byte order of the build ("IIII" is native)
    first,          \* per channel: self._first
    rx,             \* per channel: bytes delivered by the peer and not yet read
    eof,            \* per channel: the peer has closed its sending side
    hist,           \* per channel: every byte ever delivered to it
    rpos,           \* per channel: number of bytes of hist consumed
    rpc,            \* per channel: position inside recv_packet / recvall
    rneed,          \* per channel: the size argument of the running recvall
    rbuf,           \* per channel: buf of the running recvall
    rstart,         \* per channel: rpos when the running recvall started
    rreads,         \* per channel: reads made by the running direct recvall
    rframe,         \* per channel: header of the running recv_packet
    lastRead,       \* per channel: outcome of the last finished recvall
    log,            \* per channel: the finished operations, in order
    srvLog,         \* the frames the server has written to channel "A"
    rarg,           \* per channel: header_size of the running recv_packet
    opstart,        \* per channel: rpos when the running call began
    stimeout,       \* per channel: the timeout of its socket (NoTimeout: None)
    ssaved,         \* per channel: the timeout the running sendall will restore
    spc,            \* per channel: position inside sendall
    callerTimeout,  \* per channel: the timeout its owner last set
    slog            \* per channel: the finished sendall calls, in order

allocVars == <<n, nlock, tpc, ttmp, tseen, returned, after>>
lifeVars == <<hstate, hkind, closeCalls, cstate, cid, sock, sock_gclist,
              finalizer, pstate, pfinalizer, used, lateIO, lastUp, lastCons>>
wireVars == <<rarg, opstart, littleEndian, first, rx, eof, hist, rpos, rpc,
              rneed, rbuf, rstart, rreads, rframe, lastRead, log, srvLog>>
sendVars == <<stimeout, ssaved, spc, callerTimeout, slog>>
vars == <<allocVars, lifeVars, wireVars, sendVars>>

Threads == 1..NumThreads
Conns == 1..NumConns
Handles == 1..(3 * NumConns)
Chans == {"A", "B"}

Range(s) == {s[i] : i \in 1..Len(s)}
Min(a, b) == IF a < b THEN a ELSE b

(* ============================== Init ================================== *)

InitAlloc ==
    /\ n = 0
    /\ nlock = NoThread
    /\ tpc = [t \in Threads |-> "idle"]
    /\ ttmp = [t \in Threads |-> 0]
    /\ tseen = [t \in Threads |-> {}]
    /\ returned = <<>>
    /\ after = <<>>

\* No switch_to_ssl call yet. pem: what the call was given; err: what it
\* raised; sockBefore, gclistBefore: self._sock and self._sock_gclist when it
\* was called; dup, ssl: the socket objects it created; handshake: whether
\* it got as far as the TLS handshake, which writes to the wire.
NoUp == [pem |-> "none", err |-> "none", sockBefore |-> NoHandle,
         gclistBefore |-> <<>>, dup |-> NoHandle, ssl |-> NoHandle,
         handshake |-> FALSE]

\* No constructor call yet. kind: the form of addr; err: what the call
\* raised; made: the socket the constructor created itself; connect:
\* whether it called connect.
NoCons == [kind |-> "none", err |-> "none", made |-> NoHandle,
           connect |-> FALSE]

InitLife ==
    /\ hstate = [h \in Handles |-> "unused"]
    /\ hkind = [h \in Handles |-> "plain"]
    /\ closeCalls = [h \in Handles |-> 0]
    /\ cstate = [c \in Conns |-> "none"]
    /\ cid = [c \in Conns |-> 0]
    /\ sock = [c \in Conns |-> NoHandle]
    /\ sock_gclist = [c \in Conns |-> <<>>]
    /\ finalizer = [c \in Conns |-> FALSE]
    /\ pstate = [c \in Conns |-> "none"]
    /\ pfinalizer = [c \in Conns |-> FALSE]
    /\ used = [h \in Handles |-> FALSE]
    /\ lateIO = [c \in Conns |-> {}]
    /\ lastUp = [c \in Conns |-> NoUp]
    /\ lastCons = NoCons

NoRead == [n |-> 0, start |-> 0, ok |-> TRUE, val |-> <<>>, avail |-> 0,
           reads |-> 0]

InitWire ==
    /\ littleEndian \in BOOLEAN
    /\ first = [c \in Chans |-> TRUE]
    /\ rx = [c \in Chans |-> <<>>]
    /\ eof = [c \in Chans |-> FALSE]
    /\ hist = [c \in Chans |-> <<>>]
    /\ rpos = [c \in Chans |-> 0]
    /\ rpc = [c \in Chans |-> "idle"]
    /\ rneed = [c \in Chans |-> 0]
    /\ rbuf = [c \in Chans |-> <<>>]
    /\ rstart = [c \in Chans |-> 0]
    /\ rreads = [c \in Chans |-> 0]
    /\ rframe = [c \in Chans |-> <<>>]
    /\ lastRead = [c \in Chans |-> NoRead]
    /\ log = [c \in Chans |-> <<>>]
    /\ srvLog = <<>>
    /\ rarg = [c \in Chans |-> 0]
    /\ opstart = [c \in Chans |-> 0]

\* A new socket has no timeout.
InitSend ==
    /\ stimeout = [c \in Chans |-> NoTimeout]
    /\ ssaved = [c \in Chans |-> NoTimeout]
    /\ spc = [c \in Chans |-> "idle"]
    /\ callerTimeout = [c \in Chans |-> NoTimeout]
    /\ slog = [c \in Chans |-> <<>>]

Init == InitAlloc /\ InitLife /\ InitWire /\ InitSend

(* ======================= get_uniq_id (lines 24-30) ===================== *)

\* A thread enters get_uniq_id.
CallGetUniqId(t) ==
    /\ tpc[t] = "idle"
    /\ Len(returned) + Cardinality({u \in Threads : tpc[u] # "idle"}) < MaxCalls
    /\ tpc' = [tpc EXCEPT ![t] = "acquire"]
    /\ tseen' = [tseen EXCEPT ![t] = Range(returned)]
    /\ UNCHANGED <<n, nlock, ttmp, returned, after>>

\* A plausible bug: the counter is updated without taking the lock.
LockAvailableNoMutex(t) == TRUE

\* with _nlock: the lock can be taken only when no thread holds it.
LockAvailable(t) == nlock = NoThread

AcquireLock(t) ==
    /\ tpc[t] = "acquire"
    /\ LockAvailable(t)
    /\ nlock' = t
    /\ tpc' = [tpc EXCEPT ![t] = "load"]
    /\ UNCHANGED <<n, ttmp, tseen, returned, after>>

\* _n[0] += 1 is a load, an add and a store.
LoadCounter(t) ==
    /\ tpc[t] = "load"
    /\ ttmp' = [ttmp EXCEPT ![t] = n]
    /\ tpc' = [tpc EXCEPT ![t] = "store"]
    /\ UNCHANGED <<n, nlock, tseen, returned, after>>

StoreCounter(t) ==
    /\ tpc[t] = "store"
    /\ n' = ttmp[t] + 1
    /\ tpc' = [tpc EXCEPT ![t] = "return"]
    /\ UNCHANGED <<nlock, ttmp, tseen, returned, after>>

\* return _n[0], leaving the with block.
ReturnId(t) ==
    /\ tpc[t] = "return"
    /\ returned' = Append(returned, n)
    /\ after' = Append(after, tseen[t])
    /\ nlock' = NoThread
    /\ tpc' = [tpc EXCEPT ![t] = "idle"]
    /\ UNCHANGED <<n, ttmp, tseen>>

(* ============ SafeStreamSocket / PlistSocketProperty lifecycle ========= *)

AddrKinds == {"socket", "hostport", "path", "nopath", "tuple"}
PemKinds == {"missing", "bad", "ok"}

\* The next socket object the process creates.
FreshHandle == CHOOSE h \in Handles :
    /\ hstate[h] = "unused"
    /\ \A g \in Handles : hstate[g] = "unused" => h <= g

\* The model's pool of socket objects still has k unused ones.
HandlesAvailable(k) == Cardinality({h \in Handles : hstate[h] = "unused"}) >= k

\* get_uniq_id as called by a constructor (one caller, the lock is free).
get_uniq_id == n + 1

\* What a caller can pass as an already connected socket: a socket of its
\* own (NoHandle stands for a new one), or what get_socket() of another
\* connection returned.
Adoptable(c) ==
    {NoHandle} \cup {sock[d] : d \in {e \in Conns : e # c /\ cstate[e] = "live"}}

\* SafeStreamSocket.__init__ (with PlistSocket.__init__ on top of it).
\* kind: what addr is; connected: whether self._sock.connect(addr) succeeds;
\* adopt: the socket passed as addr when kind is "socket".
Construct(c, kind, connected, adopt) ==
    /\ cstate[c] = "none"
    /\ n < MaxConstructs
    /\ HandlesAvailable(1)
    /\ n' = get_uniq_id
    /\ UNCHANGED <<hkind, closeCalls, pstate, pfinalizer, used, lateIO, lastUp>>
    /\ IF kind = "nopath"
       THEN \* raise MuxError: no socket is created, no object is constructed
            /\ lastCons' = [kind |-> kind, err |-> "MuxError",
                            made |-> NoHandle, connect |-> FALSE]
            /\ UNCHANGED <<hstate, cstate, cid, sock, sock_gclist, finalizer>>
       ELSE LET h == IF kind = "socket" /\ adopt # NoHandle
                     THEN adopt ELSE FreshHandle
                st == IF h = adopt THEN hstate
                      ELSE [hstate EXCEPT ![h] = "open"]
            IN
            IF kind # "socket" /\ ~connected
            THEN \* connect raised: the socket made on line 58 is referenced
                 \* by nothing and was put in no _sock_gclist
                 /\ hstate' = st
                 /\ lastCons' = [kind |-> kind, err |-> "OSError",
                                 made |-> h, connect |-> TRUE]
                 /\ UNCHANGED <<cstate, cid, sock, sock_gclist, finalizer>>
            ELSE /\ hstate' = st
                 /\ cstate' = [cstate EXCEPT ![c] = "live"]
                 /\ cid' = [cid EXCEPT ![c] = get_uniq_id]
                 /\ sock' = [sock EXCEPT ![c] = h]
                 /\ sock_gclist' = [sock_gclist EXCEPT ![c] = <<h>>]
                 /\ finalizer' = [finalizer EXCEPT ![c] = TRUE]
                 /\ lastCons' = [kind |-> kind, err |-> "none",
                                 made |-> IF kind = "socket" THEN NoHandle
                                          ELSE h,
                                 connect |-> kind # "socket"]
    /\ UNCHANGED <<nlock, tpc, ttmp, tseen, returned, after>>

\* sock.close() on one socket object.
SockClose(st, h) == [st EXCEPT ![h] = "closed"]

\* _cleanup(socks): for sock in socks: sock.close()
RECURSIVE cleanupState(_, _)
cleanupState(st, socks) ==
    IF socks = <<>> THEN st
    ELSE cleanupState(SockClose(st, Head(socks)), Tail(socks))

RECURSIVE cleanupCalls(_, _)
cleanupCalls(cc, socks) ==
    IF socks = <<>> THEN cc
    ELSE cleanupCalls([cc EXCEPT ![Head(socks)] = @ + 1], Tail(socks))

\* self._finalizer(): runs _cleanup at most once, then is no longer alive.
RunFinalizer(c) ==
    IF finalizer[c]
    THEN /\ finalizer' = [finalizer EXCEPT ![c] = FALSE]
         /\ hstate' = cleanupState(hstate, sock_gclist[c])
         /\ closeCalls' = cleanupCalls(closeCalls, sock_gclist[c])
    ELSE UNCHANGED <<finalizer, hstate, closeCalls>>

\* SafeStreamSocket.closed
closed(c) == ~finalizer[c]

\* SafeStreamSocket.close
close(c) ==
    /\ cstate[c] = "live"
    /\ RunFinalizer(c)
    /\ UNCHANGED <<used, lateIO, lastUp, lastCons>>
    /\ UNCHANGED <<hkind, cstate, cid, sock, sock_gclist, pstate, pfinalizer>>
    /\ UNCHANGED allocVars

\* SafeStreamSocket.__exit__
exit(c) ==
    /\ cstate[c] = "live"
    /\ RunFinalizer(c)
    /\ UNCHANGED <<used, lateIO, lastUp, lastCons>>
    /\ UNCHANGED <<hkind, cstate, cid, sock, sock_gclist, pstate, pfinalizer>>
    /\ UNCHANGED allocVars

\* The runtime invokes the connection's weakref.finalize (the object is
\* collected, or the interpreter exits); no wrapper still holds the object.
Finalize(c) ==
    /\ cstate[c] = "live"
    /\ pstate[c] # "live"
    /\ RunFinalizer(c)
    /\ cstate' = [cstate EXCEPT ![c] = "gone"]
    /\ UNCHANGED <<used, lateIO, lastUp, lastCons>>
    /\ UNCHANGED <<hkind, cid, sock, sock_gclist, pstate, pfinalizer>>
    /\ UNCHANGED allocVars

\* self._sock.dup() raises on a closed or detached socket (no descriptor)
\* and on an SSLSocket (dup is not implemented for it).
CanDup(h) == hstate[h] = "open" /\ hkind[h] # "ssl"

\* A plausible bug: the assert is gone, the file is first looked at by
\* load_cert_chain.
PemAssertFailsNever(pem) == FALSE

\* assert os.path.isfile(pemfile)
PemAssertFails(pem) == pem = "missing"

\* A plausible bug: the dup is recorded only once the wrap has succeeded.
GclistWithDupLater(c, d, wrapped) ==
    IF wrapped THEN Append(sock_gclist[c], d) ELSE sock_gclist[c]

\* self._sock_gclist.append(self._dup_sock), before anything else is tried.
GclistWithDup(c, d, wrapped) == Append(sock_gclist[c], d)

UpRecord(c, pem, err, d, s, handshake) ==
    [pem |-> pem, err |-> err, sockBefore |-> sock[c],
     gclistBefore |-> sock_gclist[c], dup |-> d, ssl |-> s,
     handshake |-> handshake]

\* SafeStreamSocket.switch_to_ssl(pemfile).
\* pem: what pemfile names; handshake: whether the TLS handshake succeeds.
switch_to_ssl(c, pem, handshake) ==
    /\ cstate[c] = "live"
    /\ HandlesAvailable(2)
    /\ UNCHANGED allocVars
    /\ UNCHANGED <<cstate, cid, finalizer, pstate, pfinalizer, used, lateIO,
                   lastCons>>
    /\ IF PemAssertFails(pem)
       THEN \* the assert on line 114 raises
            /\ lastUp' = [lastUp EXCEPT ![c] =
                   UpRecord(c, pem, "AssertionError", NoHandle, NoHandle, FALSE)]
            /\ UNCHANGED <<hstate, hkind, closeCalls, sock, sock_gclist>>
       ELSE IF ~CanDup(sock[c])
       THEN \* dup() on line 115 raises
            /\ lastUp' = [lastUp EXCEPT ![c] =
                   UpRecord(c, pem, "OSError", NoHandle, NoHandle, FALSE)]
            /\ UNCHANGED <<hstate, hkind, closeCalls, sock, sock_gclist>>
       ELSE LET o == sock[c]
                d == FreshHandle
                st1 == [hstate EXCEPT ![d] = "open"]
                kd1 == [hkind EXCEPT ![d] = "dup"]
                s == CHOOSE h \in Handles :
                        /\ st1[h] = "unused"
                        /\ \A g \in Handles : st1[g] = "unused" => h <= g
            IN  IF pem # "ok"
                THEN \* load_cert_chain raises after the dup was recorded
                     /\ sock_gclist' = [sock_gclist EXCEPT ![c] =
                                           GclistWithDup(c, d, FALSE)]
                     /\ hstate' = st1
                     /\ hkind' = kd1
                     /\ lastUp' = [lastUp EXCEPT ![c] =
                            UpRecord(c, pem, "SSLError", d, NoHandle, FALSE)]
                     /\ UNCHANGED <<closeCalls, sock>>
                ELSE \* wrap_socket makes an SSLSocket on the descriptor
                     \* of self._sock and detaches self._sock from it
                     /\ hkind' = [kd1 EXCEPT ![s] = "ssl"]
                     /\ sock_gclist' = [sock_gclist EXCEPT ![c] =
                                           GclistWithDup(c, d, handshake)]
                     /\ IF handshake
                        THEN /\ hstate' = [st1 EXCEPT ![o] = "detached",
                                                     ![s] = "open"]
                             /\ sock' = [sock EXCEPT ![c] = s]
                             /\ lastUp' = [lastUp EXCEPT ![c] =
                                    UpRecord(c, pem, "none", d, s, TRUE)]
                             /\ UNCHANGED closeCalls
                        ELSE \* the SSLSocket closes itself and raises
                             /\ hstate' = [st1 EXCEPT ![o] = "detached",
                                                     ![s] = "closed"]
                             /\ closeCalls' = [closeCalls EXCEPT ![s] = @ + 1]
                             /\ lastUp' = [lastUp EXCEPT ![c] =
                                    UpRecord(c, pem, "HandshakeError", d, s,
                                             TRUE)]
                             /\ UNCHANGED sock

\* PlistSocketProperty.__init__(psock)
PropertyInit(c) ==
    /\ cstate[c] = "live"
    /\ pstate[c] = "none"
    /\ pstate' = [pstate EXCEPT ![c] = "live"]
    /\ pfinalizer' = [pfinalizer EXCEPT ![c] = TRUE]
    /\ UNCHANGED <<used, lateIO, lastUp, lastCons>>
    /\ UNCHANGED <<hstate, hkind, closeCalls, cstate, cid, sock, sock_gclist,
                   finalizer>>
    /\ UNCHANGED allocVars

\* The wrapper's self._finalizer(): calls self.psock.close at most once.
RunPropertyFinalizer(c) ==
    IF pfinalizer[c]
    THEN /\ pfinalizer' = [pfinalizer EXCEPT ![c] = FALSE]
         /\ RunFinalizer(c)
    ELSE UNCHANGED <<pfinalizer, finalizer, hstate, closeCalls>>

\* PlistSocketProperty.closed
PropertyClosed(c) == ~pfinalizer[c]

\* PlistSocketProperty.close
PropertyClose(c) ==
    /\ pstate[c] = "live"
    /\ RunPropertyFinalizer(c)
    /\ UNCHANGED <<used, lateIO, lastUp, lastCons>>
    /\ UNCHANGED <<hkind, cstate, cid, sock, sock_gclist, pstate>>
    /\ UNCHANGED allocVars

\* The runtime invokes the wrapper's weakref.finalize.
PropertyFinalize(c) ==
    /\ pstate[c] = "live"
    /\ RunPropertyFinalizer(c)
    /\ pstate' = [pstate EXCEPT ![c] = "gone"]
    /\ UNCHANGED <<used, lateIO, lastUp, lastCons>>
    /\ UNCHANGED <<hkind, cstate, cid, sock, sock_gclist>>
    /\ UNCHANGED allocVars

NextLife ==
    /\ \E c \in Conns :
        \/ \E kind \in AddrKinds \ {"socket"}, connected \in BOOLEAN :
              Construct(c, kind, connected, NoHandle)
        \/ \E adopt \in Adoptable(c) : Construct(c, "socket", TRUE, adopt)
        \/ close(c)
        \/ exit(c)
        \/ Finalize(c)
        \/ \E pem \in PemKinds, handshake \in BOOLEAN :
              switch_to_ssl(c, pem, handshake)
        \/ PropertyInit(c)
        \/ PropertyClose(c)
        \/ PropertyFinalize(c)
    /\ UNCHANGED <<wireVars, sendVars>>

SpecLife == Init /\ [][NextLife]_vars

\* The socket objects a connection holds: the one it does I/O on and the
\* ones it will close.
Owned(c) == {sock[c]} \cup Range(sock_gclist[c])

NextAlloc ==
    /\ \E t \in Threads :
        \/ CallGetUniqId(t)
        \/ AcquireLock(t)
        \/ LoadCounter(t)
        \/ StoreCounter(t)
        \/ ReturnId(t)
    /\ UNCHANGED <<lifeVars, wireVars, sendVars>>

SpecAlloc == Init /\ [][NextAlloc]_vars

(* ========================= PlistSocket framing ========================= *)

Peer(c) == IF c = "A" THEN "B" ELSE "A"

\* The payloads sent in the model, each a short run of content bytes.
Payloads == {<<7>>, <<8, 9>>}

\* plistlib.dumps(payload): the content between an opening and a closing
\* marker byte.
Dumps(p) == <<60>> \o p \o <<62>>

\* plistlib.loads(body_data) succeeds only on a complete document.
ValidPlist(b) ==
    /\ Len(b) >= 2
    /\ b[1] = 60
    /\ b[Len(b)] = 62
    /\ \A i \in 2..(Len(b) - 1) : b[i] \notin {60, 62}

Loads(b) == SubSeq(b, 2, Len(b) - 1)

\* struct.pack of one unsigned 32-bit field, least or most significant byte
\* first.
PackLE(v) == <<v % 256, (v \div 256) % 256, (v \div 65536) % 256,
               (v \div 16777216) % 256>>
PackBE(v) == <<(v \div 16777216) % 256, (v \div 65536) % 256,
               (v \div 256) % 256, v % 256>>
UnpackLE(b) == b[1] + 256 * b[2] + 65536 * b[3] + 16777216 * b[4]
UnpackBE(b) == 16777216 * b[1] + 65536 * b[2] + 256 * b[3] + b[4]

\* "I" without a byte-order mark is the byte order of the machine.
PackNative(v) == IF littleEndian THEN PackLE(v) ELSE PackBE(v)
UnpackNative(b) == IF littleEndian THEN UnpackLE(b) ELSE UnpackBE(b)

\* struct.pack("IIII", length, 1, message_type, self._tag)
FirstHeader(bodyLen, message_type, tag) ==
    PackNative(FirstHeaderSize + bodyLen) \o PackNative(ProtoVersion)
        \o PackNative(message_type) \o PackNative(tag)

\* struct.pack(">I", len(body_data))
LenHeader(bodyLen) == PackBE(bodyLen)

\* The header send_packet writes in front of body_data.
SendHeader(c, body) ==
    IF first[c]
    THEN FirstHeader(Len(body), MessageTypePlist, DefaultTag)
    ELSE LenHeader(Len(body))

\* A finished operation. form: the header size (send_packet, recv_packet) or
\* the size asked for (recvall); len: the body length, or for recvall the
\* number of reads it made.
Entry(op, form, ok, err, val, bytes, len, adv, hs) ==
    [op |-> op, form |-> form, ok |-> ok, err |-> err, val |-> val,
     bytes |-> bytes, len |-> len, used |-> adv, hs |-> hs]

\* PlistSocket.send_packet(payload): header + body_data in one sendall.
send_packet(c, p) ==
    /\ UNCHANGED <<rarg, opstart>>
    /\ rpc[c] = "idle"
    /\ ~eof[Peer(c)]
    /\ Len(log[c]) < MaxOps
    /\ LET body == Dumps(p)
           header == SendHeader(c, body)
       IN  /\ rx' = [rx EXCEPT ![Peer(c)] = @ \o header \o body]
           /\ hist' = [hist EXCEPT ![Peer(c)] = @ \o header \o body]
           /\ log' = [log EXCEPT ![c] = Append(@,
                        Entry("send", Len(header), TRUE, "none", p,
                              header \o body, Len(body), 0, 0))]
    /\ UNCHANGED <<littleEndian, first, eof, rpos, rpc, rneed, rbuf, rstart,
                   rreads, rframe, lastRead, srvLog>>

\* A recvall(size) call starts: buf = bytearray().
StartRecvall(c, at, size) ==
    /\ rpc' = [rpc EXCEPT ![c] = at]
    /\ rneed' = [rneed EXCEPT ![c] = size]
    /\ rbuf' = [rbuf EXCEPT ![c] = <<>>]
    /\ rstart' = [rstart EXCEPT ![c] = rpos[c]]
    /\ rreads' = [rreads EXCEPT ![c] = 0]

\* PlistSocket.send_recv_packet(payload): send_packet(payload), then
\* recv_packet() up to its first read.
send_recv_packet(c, p) ==
    /\ rpc[c] = "idle"
    /\ ~eof[Peer(c)]
    /\ Len(log[c]) + 1 < MaxOps
    /\ LET body == Dumps(p)
           header == SendHeader(c, body)
       IN  /\ rx' = [rx EXCEPT ![Peer(c)] = @ \o header \o body]
           /\ hist' = [hist EXCEPT ![Peer(c)] = @ \o header \o body]
           /\ log' = [log EXCEPT ![c] = Append(@,
                        Entry("send", Len(header), TRUE, "none", p,
                              header \o body, Len(body), 0, 0))]
    /\ IF first[c]
       THEN StartRecvall(c, "hdr16", FirstHeaderSize)
       ELSE StartRecvall(c, "hdr4", LenHeaderSize)
    /\ rframe' = [rframe EXCEPT ![c] = <<>>]
    /\ rarg' = [rarg EXCEPT ![c] = 0]
    /\ opstart' = [opstart EXCEPT ![c] = rpos[c]]
    /\ UNCHANGED <<littleEndian, first, eof, rpos, lastRead, srvLog>>

\* The channel's owner closes it: the peer then reads end of stream.
close_channel(c) ==
    /\ UNCHANGED <<rarg, opstart>>
    /\ rpc[c] = "idle"
    /\ ~eof[Peer(c)]
    /\ eof' = [eof EXCEPT ![Peer(c)] = TRUE]
    /\ UNCHANGED <<littleEndian, first, rx, hist, rpos, rpc, rneed, rbuf,
                   rstart, rreads, rframe, lastRead, log, srvLog>>

HeaderSizes == {0, FirstHeaderSize}

\* PlistSocket.recv_packet(header_size) up to its first read; header_size 0
\* stands for None.
recv_packet(c, header_size) ==
    /\ rpc[c] = "idle"
    /\ Len(log[c]) < MaxOps
    /\ IF first[c] \/ header_size = FirstHeaderSize
       THEN StartRecvall(c, "hdr16", FirstHeaderSize)
       ELSE StartRecvall(c, "hdr4", LenHeaderSize)
    /\ rframe' = [rframe EXCEPT ![c] = <<>>]
    /\ rarg' = [rarg EXCEPT ![c] = header_size]
    /\ opstart' = [opstart EXCEPT ![c] = rpos[c]]
    /\ UNCHANGED <<littleEndian, first, rx, eof, hist, rpos, lastRead, log,
                   srvLog>>

\* SafeStreamSocket.recvall(size) called directly, up to its first read.
recvall(c, size) ==
    /\ rpc[c] = "idle"
    /\ Len(log[c]) < MaxOps
    /\ StartRecvall(c, "raw", size)
    /\ rframe' = [rframe EXCEPT ![c] = <<>>]
    /\ rarg' = [rarg EXCEPT ![c] = 0]
    /\ opstart' = [opstart EXCEPT ![c] = rpos[c]]
    /\ UNCHANGED <<littleEndian, first, rx, eof, hist, rpos, lastRead, log,
                   srvLog>>

\* A plausible bug: one read only, whatever it returns.
RecvallContinuesOnce(c) == Len(rbuf[c]) < rneed[c] /\ rbuf[c] = <<>>

\* while len(buf) < size
RecvallContinues(c) == Len(rbuf[c]) < rneed[c]

\* How far the stream has moved since the running call began.
Advanced(c) == rpos[c] - opstart[c]

OpName(c) == IF rpc[c] = "raw" THEN "recvall" ELSE "recv"
FormOf(c) == IF rpc[c] = "raw" THEN rneed[c]
             ELSE IF rpc[c] = "hdr4" THEN LenHeaderSize
             ELSE IF rpc[c] = "hdr16" THEN FirstHeaderSize
             ELSE Len(rframe[c])
LenOf(c) == IF rpc[c] = "raw" THEN rreads[c] ELSE rneed[c]
ReadRecord(c, ok) ==
    [n |-> rneed[c], start |-> rstart[c], ok |-> ok, val |-> rbuf[c],
     avail |-> Len(hist[c]) - rstart[c], reads |-> rreads[c]]

\* One pass of the loop of recvall: chunk = self._sock.recv(size - len(buf)).
\* The read blocks while nothing has arrived and the peer has not closed.
recvall_read(c) ==
    /\ UNCHANGED <<rarg, opstart>>
    /\ rpc[c] # "idle"
    /\ RecvallContinues(c)
    /\ \/ /\ rx[c] # <<>>
          /\ \E k \in 1..Min(Len(rx[c]), rneed[c] - Len(rbuf[c])) :
                /\ rbuf' = [rbuf EXCEPT ![c] = @ \o SubSeq(rx[c], 1, k)]
                /\ rx' = [rx EXCEPT ![c] = SubSeq(@, k + 1, Len(@))]
                /\ rpos' = [rpos EXCEPT ![c] = @ + k]
          /\ rreads' = [rreads EXCEPT ![c] = IF rpc[c] = "raw" THEN @ + 1 ELSE @]
          /\ UNCHANGED <<rpc, lastRead, log>>
       \/ /\ rx[c] = <<>>
          /\ eof[c]
          \* if not chunk: raise MuxError("socket connection broken")
          /\ rpc' = [rpc EXCEPT ![c] = "idle"]
          /\ lastRead' = [lastRead EXCEPT ![c] = ReadRecord(c, FALSE)]
          /\ log' = [log EXCEPT ![c] = Append(@,
                       Entry(OpName(c), FormOf(c), FALSE, "MuxError", <<>>,
                             rframe[c], LenOf(c), Advanced(c), rarg[c]))]
          /\ UNCHANGED <<rbuf, rx, rpos, rreads>>
    /\ UNCHANGED <<littleEndian, first, eof, hist, rneed, rstart, rframe,
                   srvLog>>

\* A plausible bug: each 16-byte header flips the flag.
FirstAfterHeaderFlipped(c) == ~first[c]

\* A plausible bug: the first receive leaves self._first set.
FirstAfterHeaderKept(c) == first[c]

\* self._first = False
FirstAfterHeader(c) == FALSE

\* A plausible bug: the header's own 16 bytes are not taken off.
BodyLength16Whole(total) == total

\* length -= 16
BodyLength16(total) == total - FirstHeaderSize

\* recv_packet after header = self.recvall(16): unpack, length -= 16,
\* self._first = False, then body_data = self.recvall(length) starts.
recv_header16(c) ==
    /\ UNCHANGED <<rarg, opstart>>
    /\ rpc[c] = "hdr16"
    /\ ~RecvallContinues(c)
    /\ lastRead' = [lastRead EXCEPT ![c] = ReadRecord(c, TRUE)]
    /\ first' = [first EXCEPT ![c] = FirstAfterHeader(c)]
    /\ rframe' = [rframe EXCEPT ![c] = rbuf[c]]
    /\ StartRecvall(c, "body",
                    BodyLength16(UnpackNative(SubSeq(rbuf[c], 1, 4))))
    /\ UNCHANGED <<littleEndian, rx, eof, hist, rpos, log, srvLog>>

\* recv_packet after header = self.recvall(4): unpack big-endian, then
\* body_data = self.recvall(length) starts.
recv_header4(c) ==
    /\ UNCHANGED <<rarg, opstart>>
    /\ rpc[c] = "hdr4"
    /\ ~RecvallContinues(c)
    /\ lastRead' = [lastRead EXCEPT ![c] = ReadRecord(c, TRUE)]
    /\ rframe' = [rframe EXCEPT ![c] = rbuf[c]]
    /\ StartRecvall(c, "body", UnpackBE(rbuf[c]))
    /\ UNCHANGED <<littleEndian, first, rx, eof, hist, rpos, log, srvLog>>

\* recv_packet after body_data = self.recvall(length): plistlib.loads, whose
\* own exception is not caught, then return payload.
recv_body(c) ==
    /\ UNCHANGED <<rarg, opstart>>
    /\ rpc[c] = "body"
    /\ ~RecvallContinues(c)
    /\ lastRead' = [lastRead EXCEPT ![c] = ReadRecord(c, TRUE)]
    /\ rpc' = [rpc EXCEPT ![c] = "idle"]
    /\ log' = [log EXCEPT ![c] = Append(@,
                 IF ValidPlist(rbuf[c])
                 THEN Entry("recv", Len(rframe[c]), TRUE, "none",
                            Loads(rbuf[c]), rframe[c], rneed[c], Advanced(c),
                            rarg[c])
                 ELSE Entry("recv", Len(rframe[c]), FALSE,
                            "InvalidFileException", <<>>, rframe[c], rneed[c],
                            Advanced(c), rarg[c]))]
    /\ UNCHANGED <<littleEndian, first, rx, eof, hist, rpos, rneed, rbuf,
                   rstart, rreads, rframe, srvLog>>

\* recvall called directly returns buf.
recvall_return(c) ==
    /\ UNCHANGED <<rarg, opstart>>
    /\ rpc[c] = "raw"
    /\ ~RecvallContinues(c)
    /\ lastRead' = [lastRead EXCEPT ![c] = ReadRecord(c, TRUE)]
    /\ rpc' = [rpc EXCEPT ![c] = "idle"]
    /\ log' = [log EXCEPT ![c] = Append(@,
                 Entry("recvall", rneed[c], TRUE, "none", rbuf[c], <<>>,
                       LenOf(c), Advanced(c), rarg[c]))]
    /\ UNCHANGED <<littleEndian, first, rx, eof, hist, rpos, rneed, rbuf,
                   rstart, rreads, rframe, srvLog>>

(* ------------------- the server at the far end of "A" ------------------ *)

\* What the server may write: a reply framed either way, a reply whose body
\* is cut short, an empty body, and a 16-byte header whose length field is
\* smaller than the header itself.
ReplyPayload == <<7>>
RequestPayload == <<8, 9>>
WholeFrames ==
    {[form |-> FirstHeaderSize,
      len |-> FirstHeaderSize + Len(Dumps(ReplyPayload)),
      body |-> Dumps(ReplyPayload)],
     [form |-> LenHeaderSize, len |-> Len(Dumps(ReplyPayload)),
      body |-> Dumps(ReplyPayload)]}
SrvFrames ==
    WholeFrames
    \cup {[form |-> FirstHeaderSize, len |-> FirstHeaderSize + 2,
           body |-> <<60, 7>>],
          [form |-> LenHeaderSize, len |-> 0, body |-> <<>>],
          [form |-> FirstHeaderSize, len |-> 0, body |-> <<>>]}

\* Where the server may stop inside a frame it has begun: before it, inside
\* its header, after its header, inside its body, after it.
Cuts(f) == {0, 1, f.form, f.form + 1, f.form + Len(f.body)}

FrameBytes(f) ==
    IF f.form = FirstHeaderSize
    THEN PackNative(f.len) \o PackNative(ProtoVersion)
            \o PackNative(MessageTypePlist) \o PackNative(DefaultTag) \o f.body
    ELSE PackBE(f.len) \o f.body

\* The server writes one whole frame.
ServerWrite(f) ==
    /\ UNCHANGED <<rarg, opstart>>
    /\ ~eof["A"]
    /\ Len(srvLog) < MaxSrvFrames
    /\ rx' = [rx EXCEPT !["A"] = @ \o FrameBytes(f)]
    /\ hist' = [hist EXCEPT !["A"] = @ \o FrameBytes(f)]
    /\ srvLog' = Append(srvLog, [frame |-> f, cut |-> Len(FrameBytes(f))])
    /\ UNCHANGED <<littleEndian, first, eof, rpos, rpc, rneed, rbuf, rstart,
                   rreads, rframe, lastRead, log>>

\* The server closes, possibly after the first k bytes of a frame.
ServerClose(f, k) ==
    /\ UNCHANGED <<rarg, opstart>>
    /\ ~eof["A"]
    /\ eof' = [eof EXCEPT !["A"] = TRUE]
    /\ rx' = [rx EXCEPT !["A"] = @ \o SubSeq(FrameBytes(f), 1, k)]
    /\ hist' = [hist EXCEPT !["A"] = @ \o SubSeq(FrameBytes(f), 1, k)]
    /\ srvLog' = Append(srvLog, [frame |-> f, cut |-> k])
    /\ UNCHANGED <<littleEndian, first, rpos, rpc, rneed, rbuf, rstart,
                   rreads, rframe, lastRead, log>>

NextClient ==
    /\ \/ send_packet("A", RequestPayload)
       \/ \E hs \in HeaderSizes : recv_packet("A", hs)
       \/ recvall_read("A")
       \/ recv_header16("A")
       \/ recv_header4("A")
       \/ recv_body("A")
       \/ \E f \in SrvFrames : ServerWrite(f)
       \/ \E f \in WholeFrames : \E k \in Cuts(f) : ServerClose(f, k)
    /\ UNCHANGED <<allocVars, lifeVars, sendVars>>

SpecClient == Init /\ [][NextClient]_vars

NextRead ==
    /\ \/ \E size \in 0..MaxReadN : recvall("A", size)
       \/ recvall_read("A")
       \/ recvall_return("A")
       \/ \E f \in WholeFrames : ServerWrite(f)
       \/ \E f \in WholeFrames : \E k \in Cuts(f) : ServerClose(f, k)
    /\ UNCHANGED <<allocVars, lifeVars, sendVars>>

SpecRead == Init /\ [][NextRead]_vars

NextPair ==
    /\ \/ \E p \in Payloads : send_packet("A", p)
       \/ close_channel("A")
       \/ recv_packet("B", 0)
       \/ recvall_read("B")
       \/ recv_header16("B")
       \/ recv_header4("B")
       \/ recv_body("B")
    /\ UNCHANGED <<allocVars, lifeVars, sendVars>>

SpecPair == Init /\ [][NextPair]_vars

(* ------------------------- C1, C2, C5, C6, C7 -------------------------- *)
IsSend(e) == e.op = "send"
IsRecv(e) == e.op = "recv"
Sends(c) == SelectSeq(log[c], IsSend)
Recvs(c) == SelectSeq(log[c], IsRecv)

\* C1: on a fresh channel, whatever the sequence of sends and receives, the
\* first send writes a 16-byte header and every later send a 4-byte header.
C1_OnlyFirstSendHas16 ==
    \A i \in 1..Len(Sends("A")) :
        Sends("A")[i].form = IF i = 1 THEN FirstHeaderSize ELSE LenHeaderSize

\* C2: with fresh channels A and B joined by a reliable ordered stream, B's
\* k-th recv_packet() returns exactly the k-th payload A sent, for k = 1 and
\* for every k >= 2.
C2_RoundTrip ==
    \A k \in 1..Len(Recvs("B")) :
        k <= Len(Sends("A")) =>
            /\ Recvs("B")[k].ok
            /\ Recvs("B")[k].val = Sends("A")[k].val

\* C5: recvall(n) returns exactly the next n bytes of the stream, in order,
\* however the bytes arrive and however each read splits them; it fails with
\* "socket connection broken" only when the peer closed having delivered
\* fewer than n bytes, and it never returns a short buffer.
C5_RecvallExact ==
    \A c \in Chans :
        /\ rbuf[c] = SubSeq(hist[c], rstart[c] + 1, rstart[c] + Len(rbuf[c]))
        /\ LET r == lastRead[c] IN
            /\ (r.n >= 0 /\ r.ok) =>
                  /\ Len(r.val) = r.n
                  /\ r.val = SubSeq(hist[c], r.start + 1, r.start + r.n)
            /\ ~r.ok => /\ r.avail < r.n
                        /\ eof[c]
        /\ \A i \in 1..Len(log[c]) :
              log[c][i].op = "recvall" =>
                 /\ log[c][i].ok => Len(log[c][i].val) = log[c][i].form
                 /\ ~log[c][i].ok => log[c][i].err = "MuxError"

\* A recvall(n), n >= 2, that was handed one byte per read has returned its
\* n bytes, and a later recvall has failed on a peer that closed after
\* delivering part of what was asked for.
C5_Witness ==
    /\ \E i \in 1..Len(log["A"]) :
          /\ log["A"][i].op = "recvall" /\ log["A"][i].ok
          /\ log["A"][i].form >= 2
          /\ log["A"][i].len = log["A"][i].form
    /\ ~lastRead["A"].ok
    /\ lastRead["A"].val # <<>>

\* C6: every recv_packet that fails, fails with the package's own error
\* (MuxError): for a body that cannot be deserialized as for a stream the
\* peer closed too early.
C6_RecvFailsWithMuxError ==
    \A i \in 1..Len(log["A"]) :
        (log["A"][i].op = "recv" /\ ~log["A"][i].ok) =>
            log["A"][i].err = "MuxError"

\* C7: on a fresh channel driven send, recv, send: the recv reads the
\* 16-byte header and takes the decoded length minus 16 as the body length;
\* when the server's reply is a whole frame with a 16-byte header the recv
\* returns the reply's payload; and the send after a recv that returned
\* writes the 4-byte big-endian length of its body, then the body.
C7_RequestResponse ==
    LET L == log["A"] IN
    (Len(L) >= 2 /\ L[1].op = "send" /\ L[2].op = "recv") =>
        /\ L[1].form = FirstHeaderSize
        /\ L[2].form = FirstHeaderSize
        /\ Len(L[2].bytes) = FirstHeaderSize =>
              L[2].len = UnpackNative(SubSeq(L[2].bytes, 1, 4)) - FirstHeaderSize
        /\ (/\ srvLog[1].frame \in WholeFrames
            /\ srvLog[1].frame.form = FirstHeaderSize
            /\ srvLog[1].cut = Len(FrameBytes(srvLog[1].frame))) =>
              /\ L[2].ok
              /\ L[2].val = Loads(srvLog[1].frame.body)
        /\ (Len(L) >= 3 /\ L[2].ok /\ L[3].op = "send") =>
              /\ L[3].form = LenHeaderSize
              /\ L[3].bytes = PackBE(Len(Dumps(L[3].val))) \o Dumps(L[3].val)

\* send, recv of a 16-byte-framed reply, send: all three have finished.
C7_Witness ==
    LET L == log["A"] IN
    /\ Len(L) = 3
    /\ L[1].op = "send" /\ L[2].op = "recv" /\ L[3].op = "send"
    /\ L[2].ok /\ L[2].val = ReplyPayload
    /\ srvLog[1].frame.form = FirstHeaderSize
    /\ Len(L[3].bytes) = LenHeaderSize + Len(Dumps(L[3].val))

(* --------------------------- C3, C4, C9, C10 --------------------------- *)
\* C3: under any interleaving of close(), __exit__ and the finalizer, every
\* socket object a connection holds (the one it does I/O on and every one
\* in its release list) has close() invoked at most once, and exactly once
\* as soon as the connection reports closed.
C3_EachHandleClosedOnce ==
    \A c \in Conns : cstate[c] # "none" =>
        \A h \in Owned(c) :
            /\ closeCalls[h] <= 1
            /\ closed(c) => closeCalls[h] = 1

\* C4: whenever a connection reports closed, every socket object it holds
\* is closed: the one it does I/O on (after switch_to_ssl, the SSLSocket) and
\* every one added by switch_to_ssl.
C4_ClosedMeansAllClosed ==
    \A c \in Conns : (cstate[c] # "none" /\ closed(c)) =>
        \A h \in Owned(c) : hstate[h] = "closed"

\* C9: the wrapper's closed always equals the held channel's closed.
C9_ClosedDelegates ==
    \A c \in Conns : pstate[c] = "live" => (PropertyClosed(c) = closed(c))

\* C10: once the wrapper is released (close() or its finalizer), the held
\* channel reports closed and every socket object of the connection has had
\* close() invoked exactly once.
C10_PropertyReleaseClosesAll ==
    \A c \in Conns : (pstate[c] # "none" /\ PropertyClosed(c)) =>
        /\ closed(c)
        /\ \A h \in Owned(c) : closeCalls[h] = 1

(* ------------------------------ C8 ------------------------------------ *)
\* C8: the values returned by get_uniq_id, called by any number of threads in
\* any interleaving, are pairwise distinct, and each is strictly greater than
\* every value returned by a call that completed before it started.
C8_UniqueIncreasing ==
    /\ \A i, j \in 1..Len(returned) : i # j => returned[i] # returned[j]
    /\ \A i \in 1..Len(returned) : \A v \in after[i] : returned[i] > v

\* Two threads were inside get_uniq_id at once (one waiting for the lock) and
\* both have returned, as have calls that started after another finished.
C8_Witness ==
    /\ Len(returned) >= 3
    /\ \E i \in 1..Len(returned) : after[i] # {}
    /\ \E i \in 2..Len(returned) : returned[i - 1] \notin after[i]

(* ---------------------- sendall and its timeout ----------------------- *)

\* The timeouts the owner of a connection gives its socket through
\* get_socket(): none, one below and one equal to that of sendall.
CallerTimeouts == {NoTimeout, SendTimeout \div 2, SendTimeout}

\* get_socket().settimeout(v), between calls.
settimeout(c, v) ==
    /\ spc[c] = "idle"
    /\ v # stimeout[c]
    /\ stimeout' = [stimeout EXCEPT ![c] = v]
    /\ callerTimeout' = [callerTimeout EXCEPT ![c] = v]
    /\ UNCHANGED <<ssaved, spc, slog>>
    /\ UNCHANGED <<allocVars, lifeVars, wireVars>>

\* A plausible bug: the timeout is put back only when the send succeeded.
TimeoutOnExitIfOk(c, outcome) ==
    IF outcome = "ok" THEN ssaved[c] ELSE stimeout[c]

\* set_socket_timeout on leaving the with block, by return or by exception:
\* the timeout saved on entry.
TimeoutOnExit(c, outcome) == ssaved[c]

\* SafeStreamSocket.sendall(data) up to self._sock.sendall(data):
\* set_socket_timeout(self._sock, 10) saves the socket's timeout and sets 10.
sendall_enter(c) ==
    /\ spc[c] = "idle"
    /\ Len(slog[c]) < MaxOps
    /\ ssaved' = [ssaved EXCEPT ![c] = stimeout[c]]
    /\ stimeout' = [stimeout EXCEPT ![c] = SendTimeout]
    /\ spc' = [spc EXCEPT ![c] = "sending"]
    /\ UNCHANGED <<callerTimeout, slog>>
    /\ UNCHANGED <<allocVars, lifeVars, wireVars>>

SendOutcomes == {"ok", "timeout", "OSError"}

\* self._sock.sendall(data) returns, or raises after k bytes went out, and
\* the with block is left.
sendall_exit(c, data, outcome, k) ==
    /\ spc[c] = "sending"
    /\ IF outcome = "ok" THEN k = Len(data) ELSE k < Len(data)
    /\ rx' = [rx EXCEPT ![Peer(c)] = @ \o SubSeq(data, 1, k)]
    /\ hist' = [hist EXCEPT ![Peer(c)] = @ \o SubSeq(data, 1, k)]
    /\ stimeout' = [stimeout EXCEPT ![c] = TimeoutOnExit(c, outcome)]
    /\ spc' = [spc EXCEPT ![c] = "idle"]
    /\ slog' = [slog EXCEPT ![c] = Append(@,
                   [outcome |-> outcome, written |-> k,
                    before |-> ssaved[c], during |-> stimeout[c],
                    after |-> TimeoutOnExit(c, outcome)])]
    /\ UNCHANGED <<ssaved, callerTimeout>>
    /\ UNCHANGED <<rarg, opstart, littleEndian, first, eof, rpos, rpc, rneed,
                   rbuf, rstart, rreads, rframe, lastRead, log, srvLog>>
    /\ UNCHANGED <<allocVars, lifeVars>>

NextSend ==
    \/ \E v \in CallerTimeouts : settimeout("A", v)
    \/ sendall_enter("A")
    \/ \E outcome \in SendOutcomes : \E k \in 0..Len(RequestPayload) :
          sendall_exit("A", RequestPayload, outcome, k)

SpecSend == Init /\ [][NextSend]_vars

(* ------------------- one connection and its sockets ------------------- *)

\* The connection looked at alone.
TheConn == CHOOSE c \in Conns : \A d \in Conns : c <= d

\* A plausible bug: I/O goes to the duplicate once there is one.
IoSockDup(c) ==
    IF lastUp[c].dup # NoHandle THEN lastUp[c].dup ELSE sock[c]

\* recv, recvall and sendall all use self._sock.
IoSock(c) == sock[c]

\* A recv or sendall on a socket object that is closed or detached raises
\* OSError before anything is read or written.
CanIo(c) == cstate[c] = "live" /\ hstate[IoSock(c)] = "open"

\* self._sock.recv(...) or self._sock.sendall(...) was performed, inside
\* the method op.
MarkIo(c, op) ==
    /\ used' = [used EXCEPT ![IoSock(c)] = TRUE]
    /\ lateIO' = [lateIO EXCEPT ![c] = IF closed(c) THEN @ \cup {op} ELSE @]
    /\ UNCHANGED <<hstate, hkind, closeCalls, cstate, cid, sock, sock_gclist,
                   finalizer, pstate, pfinalizer, lastUp, lastCons>>
    /\ UNCHANGED <<allocVars, sendVars>>

IoOps == {"recv", "recvall", "sendall"}

\* SafeStreamSocket.recv, recvall or sendall called on the connection. What
\* is read and written is followed in the framing specifications; here,
\* which socket object the call is made on.
SockIo(c, op) == CanIo(c) /\ MarkIo(c, op)

NextConn ==
    /\ \/ \E kind \in AddrKinds, connected \in BOOLEAN :
             Construct(TheConn, kind, connected, NoHandle)
       \/ close(TheConn)
       \/ exit(TheConn)
       \/ Finalize(TheConn)
       \/ \E pem \in PemKinds, handshake \in BOOLEAN :
             switch_to_ssl(TheConn, pem, handshake)
       \/ \E op \in IoOps : SockIo(TheConn, op)
    /\ UNCHANGED <<wireVars, sendVars>>

SpecConn == Init /\ [][NextConn]_vars

(* ------------- a PlistSocket over its connection's sockets ------------- *)

\* Channel "A" is the byte stream of TheConn, a connection to a socket path
\* that is upgraded with a valid identity file.

\* The calls of the channel that read or write its socket.
ChanSend(p) ==
    CanIo(TheConn) /\ send_packet("A", p) /\ MarkIo(TheConn, "sendall")
ChanSendRecv(p) ==
    CanIo(TheConn) /\ send_recv_packet("A", p) /\ MarkIo(TheConn, "sendall")
ChanRead ==
    CanIo(TheConn) /\ recvall_read("A") /\ MarkIo(TheConn, "recvall")

\* The steps of recv_packet that touch no socket.
ChanRecv(header_size) ==
    /\ CanIo(TheConn)
    /\ recv_packet("A", header_size)
    /\ UNCHANGED <<allocVars, lifeVars, sendVars>>
ChanStep ==
    /\ \/ recv_header16("A")
       \/ recv_header4("A")
       \/ recv_body("A")
    /\ UNCHANGED <<allocVars, lifeVars, sendVars>>

\* The owner's calls on the connection, made between calls of the channel.
ChanConstruct ==
    Construct(TheConn, "path", TRUE, NoHandle) /\ UNCHANGED <<wireVars, sendVars>>
ChanUpgrade(handshake) ==
    /\ rpc["A"] = "idle"
    /\ switch_to_ssl(TheConn, "ok", handshake)
    /\ UNCHANGED <<wireVars, sendVars>>
ChanClose ==
    /\ rpc["A"] = "idle"
    /\ close(TheConn) \/ exit(TheConn) \/ Finalize(TheConn)
    /\ UNCHANGED <<wireVars, sendVars>>

\* The server of a request and response protocol: it writes one whole frame
\* for each request, and one that nothing asked for, or closes.
ChanServer ==
    /\ cstate[TheConn] = "live"
    /\ Len(srvLog) <= Len(SelectSeq(log["A"], LAMBDA e : e.op = "send"))
    /\ \/ \E f \in WholeFrames : ServerWrite(f)
       \/ \E f \in WholeFrames : ServerClose(f, f.form + Len(f.body))
    /\ UNCHANGED <<allocVars, lifeVars, sendVars>>

NextChan ==
    \/ ChanSend(RequestPayload)
    \/ ChanSendRecv(RequestPayload)
    \/ \E hs \in HeaderSizes : ChanRecv(hs)
    \/ ChanRead
    \/ ChanStep
    \/ ChanConstruct
    \/ \E handshake \in BOOLEAN : ChanUpgrade(handshake)
    \/ ChanClose
    \/ ChanServer

\* The byte order of the host plays no part in what the connection's sockets
\* go through: a little-endian host.
InitChan == Init /\ littleEndian = TRUE

SpecChan == InitChan /\ [][NextChan]_vars

(* ------------------------------ C15 ----------------------------------- *)
\* self._first when the i-th operation of the log began: no earlier
\* recv_packet has read a 16-byte header.
FirstBefore(c, i) ==
    \A j \in 1..(i - 1) :
        ~(IsRecv(log[c][j]) /\ Len(log[c][j].bytes) = FirstHeaderSize)

Total16(e) == UnpackNative(SubSeq(e.bytes, 1, 4))

\* The header form a recv_packet used is the 16-byte one exactly when
\* self._first was set or the caller passed header_size=16.
FormChosen(c, i) ==
    LET e == log[c][i]
    IN  /\ e.form \in {FirstHeaderSize, LenHeaderSize}
        /\ (e.form = FirstHeaderSize) <=>
              (FirstBefore(c, i) \/ e.hs = FirstHeaderSize)

\* C15 as stated: a recv_packet reads the 16-byte header form iff the channel
\* is on its first message or the caller forces it, and, for every length
\* the header carries, a recv_packet that was given its whole frame has moved
\* the stream by exactly total_length bytes (16-byte form) or
\* 4 + payload_length bytes (4-byte form).
C15_ExactlyOneFrame ==
    \A i \in 1..Len(log["A"]) :
        LET e == log["A"][i]
        IN  IsRecv(e) =>
              /\ FormChosen("A", i)
              /\ e.err # "MuxError" =>
                    IF e.form = FirstHeaderSize
                    THEN e.used = Total16(e)
                    ELSE e.used = LenHeaderSize + UnpackBE(e.bytes)

\* C15 amended: the same, for a 16-byte header whose total_length is at
\* least 16; a smaller total_length moves the stream by the 16 header bytes
\* alone.
C15_ExactlyOneFrameFrom16 ==
    \A i \in 1..Len(log["A"]) :
        LET e == log["A"][i]
        IN  IsRecv(e) =>
              /\ FormChosen("A", i)
              /\ e.err # "MuxError" =>
                    IF e.form = FirstHeaderSize
                    THEN e.used = IF Total16(e) >= FirstHeaderSize
                                  THEN Total16(e) ELSE FirstHeaderSize
                    ELSE e.used = LenHeaderSize + UnpackBE(e.bytes)

\* A 16-byte frame and then a 4-byte frame were both received whole, each
\* leaving the stream at the end of its frame.
C15_Witness ==
    \E i, j \in 1..Len(log["A"]) :
        /\ i < j
        /\ IsRecv(log["A"][i]) /\ log["A"][i].ok
        /\ log["A"][i].form = FirstHeaderSize
        /\ log["A"][i].used = Total16(log["A"][i])
        /\ IsRecv(log["A"][j]) /\ log["A"][j].ok
        /\ log["A"][j].form = LenHeaderSize
        /\ log["A"][j].used = LenHeaderSize + Len(Dumps(ReplyPayload))
        /\ rpos["A"] = Len(hist["A"])

(* ------------------------------ C12 ----------------------------------- *)
\* C12: self._first is set when the channel is constructed, and once it is
\* false no step of send_packet, recv_packet (with or without
\* header_size=16), send_recv_packet, switch_to_ssl or close makes it true
\* again.
C12_FirstNeverReturns ==
    [][/\ \A c \in Chans : ~first[c] => ~first'[c]
       /\ (cstate[TheConn] = "none" /\ cstate'[TheConn] = "live")
             => first'["A"]]_vars

\* The channel has received its first frame, then sent again and received
\* a frame with header_size=16, and was upgraded and released on the way.
C12_Witness ==
    /\ ~first["A"]
    /\ closed(TheConn)
    /\ lastUp[TheConn].err = "none" /\ lastUp[TheConn].ssl # NoHandle
    /\ \E i, j, k \in 1..Len(log["A"]) :
          /\ i < j /\ j < k
          /\ IsRecv(log["A"][i]) /\ log["A"][i].ok
          /\ IsSend(log["A"][j])
          /\ IsRecv(log["A"][k]) /\ log["A"][k].ok
          /\ log["A"][k].hs = FirstHeaderSize

(* ------------------------------ C11 ----------------------------------- *)
\* C11: switch_to_ssl with a pemfile that does not exist raises before any
\* handshake is attempted, hence before anything is written to the wire, and
\* leaves the connection as it was: self._sock is not replaced and no socket
\* object is created or recorded.
C11_MissingPemChangesNothing ==
    \A c \in Conns : lastUp[c].pem = "missing" =>
        /\ lastUp[c].err # "none"
        /\ ~lastUp[c].handshake
        /\ lastUp[c].dup = NoHandle /\ lastUp[c].ssl = NoHandle
        /\ sock[c] = lastUp[c].sockBefore
        /\ sock_gclist[c] = lastUp[c].gclistBefore

\* An upgrade with a missing file was tried on an open connection that an
\* earlier failed upgrade had left with one duplicate.
C11_Witness ==
    /\ lastUp[TheConn].pem = "missing"
    /\ cstate[TheConn] = "live" /\ hstate[sock[TheConn]] = "open"
    /\ Len(sock_gclist[TheConn]) = 2

(* ------------------------------ C17 ----------------------------------- *)
\* C17: once a connection reports closed, recv, recvall and sendall perform
\* no read and no write on any of its socket objects.
C17_NoIoAfterRelease == \A c \in Conns : lateIO[c] = {}

(* ------------------------------ C18 ----------------------------------- *)
\* C18: the duplicate made by switch_to_ssl is never read from or written
\* to: every recv, recvall and sendall is made on self._sock, and the one
\* thing done to a duplicate is its close() when the connection is released.
C18_DupNeverUsed ==
    /\ \A h \in Handles : hkind[h] = "dup" =>
          /\ ~used[h]
          /\ hstate[h] \in {"unused", "open", "closed"}
    /\ \A c \in Conns : \A i \in 1..Len(sock_gclist[c]) :
          LET h == sock_gclist[c][i]
          IN  (hkind[h] = "dup" /\ hstate[h] = "closed") =>
                 (closed(c) /\ closeCalls[h] = 1)

\* An upgraded connection was read or written before and after the upgrade
\* and then released, which closed its duplicate.
C18_Witness ==
    /\ lastUp[TheConn].err = "none" /\ lastUp[TheConn].dup # NoHandle
    /\ used[lastUp[TheConn].sockBefore]
    /\ used[sock[TheConn]] /\ hkind[sock[TheConn]] = "ssl"
    /\ closed(TheConn)
    /\ hstate[lastUp[TheConn].dup] = "closed"

(* ------------------------------ C19 ----------------------------------- *)
\* C19: when switch_to_ssl fails after the dup (load_cert_chain raises, or
\* the handshake fails), self._sock is still the socket object it was, not
\* an encrypted one, the duplicate is already in _sock_gclist, and a later
\* release leaves the original, the duplicate and the failed SSL socket all
\* closed.
C19_FailedUpgradeConsistent ==
    \A c \in Conns : lastUp[c].err \in {"SSLError", "HandshakeError"} =>
        /\ sock[c] = lastUp[c].sockBefore
        /\ hkind[sock[c]] # "ssl"
        /\ lastUp[c].dup \in Range(sock_gclist[c])
        /\ lastUp[c].sockBefore \in Range(sock_gclist[c])
        /\ closed(c) =>
              /\ hstate[lastUp[c].sockBefore] = "closed"
              /\ hstate[lastUp[c].dup] = "closed"
              /\ lastUp[c].ssl # NoHandle => hstate[lastUp[c].ssl] = "closed"

\* A connection went through an upgrade whose identity file did not load
\* and one whose handshake failed, and was then released.
C19_Witness ==
    /\ lastUp[TheConn].err = "HandshakeError"
    /\ Len(sock_gclist[TheConn]) = 3
    /\ closed(TheConn)
    /\ \A i \in 1..3 : hstate[sock_gclist[TheConn][i]] = "closed"

(* ------------------------------ C13 ----------------------------------- *)
\* C13: sendall applies a timeout of 10 for the duration of the call only:
\* while it runs the socket's timeout is 10, and however it ends, by return
\* or by failure, the timeout is again what it was just before the call.
C13_TimeoutScopedToCall ==
    \A c \in Chans :
        /\ spc[c] = "sending" =>
              (stimeout[c] = SendTimeout /\ ssaved[c] = callerTimeout[c])
        /\ spc[c] = "idle" => stimeout[c] = callerTimeout[c]
        /\ \A i \in 1..Len(slog[c]) :
              /\ slog[c][i].during = SendTimeout
              /\ slog[c][i].after = slog[c][i].before

\* A send that returned and one that timed out part way, made on a socket
\* with no timeout and on one with a timeout other than 10.
C13_Witness ==
    \E i, j \in 1..Len(slog["A"]) :
        /\ slog["A"][i].outcome = "ok"
        /\ slog["A"][j].outcome = "timeout" /\ slog["A"][j].written > 0
        /\ slog["A"][i].before # slog["A"][j].before
        /\ {slog["A"][i].before, slog["A"][j].before} \cap {SendTimeout} = {}
        /\ spc["A"] = "idle"

(* ------------------------------ C14 ----------------------------------- *)
\* C14: a constructor call that fails, fails with MuxError, both for a
\* string with no colon that names no path, for which no socket is created,
\* and for a connect that fails; and a socket passed as addr is adopted
\* with no connect made.
C14_ConstructFailsWithMuxError ==
    /\ lastCons.err # "none" => lastCons.err = "MuxError"
    /\ lastCons.kind = "nopath" =>
          (lastCons.err = "MuxError" /\ lastCons.made = NoHandle
             /\ ~lastCons.connect)
    /\ lastCons.kind = "socket" =>
          (lastCons.err = "none" /\ lastCons.made = NoHandle
             /\ ~lastCons.connect)

(* ------------------------------ C16 ----------------------------------- *)
\* C16: no socket object is held by two connections: the lists two distinct
\* connections close on release have nothing in common, also when a
\* connection was constructed on a socket its caller passed in.
C16_HandlesDisjoint ==
    \A c, d \in Conns :
        (c # d /\ cstate[c] = "live" /\ cstate[d] = "live") =>
            Range(sock_gclist[c]) \cap Range(sock_gclist[d]) = {}

(* ------------------------------ C20 ----------------------------------- *)
\* C20: the socket a constructor call created is, when the call fails at
\* connect, either closed or in a _sock_gclist that a live finalizer will
\* close.
C20_CreatedSocketRegistered ==
    (lastCons.err # "none" /\ lastCons.made # NoHandle) =>
        \/ hstate[lastCons.made] = "closed"
        \/ \E c \in Conns :
              finalizer[c] /\ lastCons.made \in Range(sock_gclist[c])

====
